---- MODULE Spec2Model ----
(***************************************************************************)
(* A model of jonalmeida/bloom-filter: the seeded 32-bit murmur3 hash      *)
(* (src/murmur.rs), the packed bit vector (src/src/bit_vec.rs) and the     *)
(* bloom filter that drives both (src/src/lib.rs).                         *)
(*                                                                         *)
(* Machine words.  TLC's integers are 32-bit signed, so a u32 is kept as a *)
(* pair <<hi, lo>> of 16-bit limbs (value hi * 2^16 + lo) and a 64-bit     *)
(* usize, where its width matters, as four 16-bit limbs <<w3,w2,w1,w0>>.   *)
(* All u32 arithmetic wraps modulo 2^32, as the arithmetic of the Rust     *)
(* dialect murmur.rs is written in does.                                   *)
(***************************************************************************)
EXTENDS Integers, Sequences, FiniteSets, TLC

\* ------------------------------------------------------------------------
\* Bitwise operations on naturals (u8 bytes and 16-bit limbs).
\* ------------------------------------------------------------------------
RECURSIVE BitAnd(_, _)
BitAnd(a, b) ==
    IF a = 0 \/ b = 0 THEN 0
    ELSE (a % 2) * (b % 2) + 2 * BitAnd(a \div 2, b \div 2)

RECURSIVE BitOr(_, _)
BitOr(a, b) ==
    IF a = 0 THEN b
    ELSE IF b = 0 THEN a
    ELSE (IF a % 2 = 1 \/ b % 2 = 1 THEN 1 ELSE 0) + 2 * BitOr(a \div 2, b \div 2)

RECURSIVE BitXor(_, _)
BitXor(a, b) ==
    IF a = 0 THEN b
    ELSE IF b = 0 THEN a
    ELSE ((a + b) % 2) + 2 * BitXor(a \div 2, b \div 2)

RECURSIVE Pow2(_)
Pow2(e) == IF e = 0 THEN 1 ELSE 2 * Pow2(e - 1)

\* ------------------------------------------------------------------------
\* u32 as <<hi, lo>>.
\* ------------------------------------------------------------------------
Limb == 256 * 256

U32Hi(x) == x[1]
U32Lo(x) == x[2]

\* A natural below 2^31 as a u32.
NatToU32(v) == <<(v \div Limb) % Limb, v % Limb>>

\* A u32 below 2^31 as a natural.
U32ToNat(x) == U32Hi(x) * Limb + U32Lo(x)

U32Xor(x, y) == <<BitXor(U32Hi(x), U32Hi(y)), BitXor(U32Lo(x), U32Lo(y))>>

U32Or(x, y) == <<BitOr(U32Hi(x), U32Hi(y)), BitOr(U32Lo(x), U32Lo(y))>>

\* x << r, 0 < r < 32, bits shifted out are lost.
U32Shl(x, r) ==
    IF r >= 16
    THEN <<(U32Lo(x) * Pow2(r - 16)) % Limb, 0>>
    ELSE <<(((U32Hi(x) % Pow2(16 - r)) * Pow2(r)) + (U32Lo(x) \div Pow2(16 - r))) % Limb,
           ((U32Lo(x) % Pow2(16 - r)) * Pow2(r)) % Limb>>

\* x >> r, 0 < r < 32 (logical).
U32Shr(x, r) ==
    IF r >= 16
    THEN <<0, U32Hi(x) \div Pow2(r - 16)>>
    ELSE <<U32Hi(x) \div Pow2(r),
           ((U32Hi(x) % Pow2(r)) * Pow2(16 - r)) + (U32Lo(x) \div Pow2(r))>>

\* Wrapping addition.
U32Add(x, y) ==
    LET lo == U32Lo(x) + U32Lo(y)
        hi == U32Hi(x) + U32Hi(y) + (lo \div Limb)
    IN  <<hi % Limb, lo % Limb>>

\* The 32-bit product of two 16-bit limbs, as a u32, through 8-bit halves.
LimbMul(a, b) ==
    LET a1 == a \div 256
        a0 == a % 256
        b1 == b \div 256
        b0 == b % 256
        mid == a1 * b0 + a0 * b1
        t == a0 * b0 + (mid % 256) * 256
    IN  <<(a1 * b1 + (mid \div 256) + (t \div Limb)) % Limb, t % Limb>>

\* Wrapping multiplication.
U32Mul(x, y) ==
    LET ll == LimbMul(U32Lo(x), U32Lo(y))
        hl == LimbMul(U32Hi(x), U32Lo(y))
        lh == LimbMul(U32Lo(x), U32Hi(y))
    IN  <<(U32Hi(ll) + U32Lo(hl) + U32Lo(lh)) % Limb, U32Lo(ll)>>

U32Less(x, y) ==
    \/ U32Hi(x) < U32Hi(y)
    \/ U32Hi(x) = U32Hi(y) /\ U32Lo(x) < U32Lo(y)

\* x - y for y <= x.
U32Sub(x, y) ==
    LET borrow == IF U32Lo(x) < U32Lo(y) THEN 1 ELSE 0
    IN  <<U32Hi(x) - U32Hi(y) - borrow, U32Lo(x) + borrow * Limb - U32Lo(y)>>

\* x % d for 0 < d < 2^15, in integer arithmetic:
\* (hi * 2^16 + lo) % d = ((hi % d) * (2^16 % d) + lo % d) % d.
U32RemSmall(x, d) ==
    <<0, ((U32Hi(x) % U32Lo(d)) * (Limb % U32Lo(d)) + (U32Lo(x) % U32Lo(d))) % U32Lo(d)>>

\* x % d for d > 0, by doubling the divisor while it fits in 32 bits.
\* (Intermediate results are bound as values, r \in {...}, so that each is
\* evaluated once; the loops below do the same.)
RECURSIVE U32RemLarge(_, _)
U32RemLarge(x, d) ==
    IF U32Less(x, d) THEN x
    ELSE CHOOSE out \in
             { IF U32Less(r, d) THEN r ELSE U32Sub(r, d) :
                 r \in { IF U32Hi(d) >= 32768 THEN x
                         ELSE CHOOSE q \in {U32RemLarge(x, dd) : dd \in {U32Add(d, d)}} : TRUE } } : TRUE

\* x % d for d > 0.
U32Rem(x, d) ==
    IF U32Hi(d) = 0 /\ U32Lo(d) < 32768 THEN U32RemSmall(x, d) ELSE U32RemLarge(x, d)

\* ------------------------------------------------------------------------
\* src/murmur.rs
\* ------------------------------------------------------------------------
c1 == <<52382, 11601>>       \* 0xcc9e2d51
c2 == <<7047, 13715>>        \* 0x1b873593
r1 == 15
r2 == 13
m == <<0, 5>>
n == <<58964, 27492>>        \* 0xe6546b64
fmix1 == <<34283, 51819>>    \* 0x85ebca6b
fmix2 == <<49842, 44597>>    \* 0xc2b2ae35

\* key_bytes.slice(from, to): the bytes at 0-based indices [from, to).
Slice(bytes, from, to) == SubSeq(bytes, from + 1, to)

key_bytes_to_u32_chunk(bytes) ==
    CASE Len(bytes) = 4 ->
            U32Add(U32Add(U32Add(U32Shl(<<0, bytes[4]>>, 24),
                                 U32Shl(<<0, bytes[3]>>, 16)),
                          U32Shl(<<0, bytes[2]>>, 8)),
                   <<0, bytes[1]>>)
      [] Len(bytes) = 3 ->
            U32Add(U32Add(U32Shl(<<0, bytes[3]>>, 16),
                          U32Shl(<<0, bytes[2]>>, 8)),
                   <<0, bytes[1]>>)
      [] Len(bytes) = 2 ->
            U32Add(U32Shl(<<0, bytes[2]>>, 8), <<0, bytes[1]>>)
      [] Len(bytes) = 1 -> <<0, bytes[1]>>
      [] OTHER -> <<0, 0>>

\* chunk = chunk * c1; chunk = (chunk << r1) | (chunk >> (32 - r1)); chunk = chunk * c2
MixChunk(chunk) ==
    LET a == U32Mul(chunk, c1)
        b == U32Or(U32Shl(a, r1), U32Shr(a, 32 - r1))
    IN  U32Mul(b, c2)

\* MurmurStep with the accumulator's rotate, multiply and add applied to the
\* tail as well.
MurmurStepTailFinalized(hash, key_bytes, byte_index) ==
    LET len == Len(key_bytes)
        upto == IF byte_index + 4 <= len THEN byte_index + 4 ELSE len
        chunk == MixChunk(key_bytes_to_u32_chunk(Slice(key_bytes, byte_index, upto)))
        h1 == U32Xor(hash, chunk)
        h2 == U32Or(U32Shl(h1, r2), U32Shr(h1, 32 - r2))
    IN  U32Add(U32Mul(h2, m), n)

\* One iteration of the loop body at byte_index.
MurmurStep(hash, key_bytes, byte_index) ==
    LET len == Len(key_bytes)
    IN  IF byte_index + 3 <= len - 1
        THEN LET chunk == MixChunk(key_bytes_to_u32_chunk(
                               Slice(key_bytes, byte_index, byte_index + 4)))
                 h1 == U32Xor(hash, chunk)
                 h2 == U32Or(U32Shl(h1, r2), U32Shr(h1, 32 - r2))
             IN  U32Add(U32Mul(h2, m), n)
        ELSE LET chunk == MixChunk(key_bytes_to_u32_chunk(
                               Slice(key_bytes, byte_index, len)))
             IN  U32Xor(hash, chunk)

\* for byte_index in range_step(0, len, 4) { ... }
\* (Each iteration's hash is bound as a value before the next one starts, so
\* that the evaluation does not nest one iteration inside the next.)
RECURSIVE MurmurLoop(_, _, _)
MurmurLoop(hash, key_bytes, byte_index) ==
    IF byte_index >= Len(key_bytes) THEN hash
    ELSE CHOOSE out \in
             { MurmurLoop(h, key_bytes, byte_index + 4) :
                 h \in {MurmurStep(hash, key_bytes, byte_index)} } : TRUE

\* The finalization after the loop.
MurmurFinish(hash, len) ==
    LET h0 == U32Xor(hash, NatToU32(len))
        h1 == U32Xor(h0, U32Shr(h0, 16))
        h2 == U32Mul(h1, fmix1)
        h3 == U32Xor(h2, U32Shr(h2, 13))
        h4 == U32Mul(h3, fmix2)
    IN  U32Xor(h4, U32Shr(h4, 16))

murmur3_32_seeded(key, seed) ==
    CHOOSE out \in
        { MurmurFinish(h, Len(key)) : h \in {MurmurLoop(seed, key, 0)} } : TRUE

murmur3_32(key) == murmur3_32_seeded(key, <<0, 0>>)

\* Keys, as their UTF-8 bytes.
KeyEmpty == <<>>
KeyA == <<97>>
KeyAb == <<97, 98>>
KeyAbc == <<97, 98, 99>>
KeyTest == <<116, 101, 115, 116>>
KeyHello == <<104, 101, 108, 108, 111>>
KeyFoo == <<102, 111, 111>>
KeyNot == <<110, 111, 116>>
KeyLong == <<97, 98, 99, 100, 101, 102, 103, 104, 105, 106, 107, 108, 109, 110, 111, 112>>

\* ------------------------------------------------------------------------
\* src/src/bit_vec.rs.  A BitVec is [bits: sequence of u8, size: usize].
\* An operation returns [err, self, val]: err is "none", "bounds" (the
\* explicit panic of the bounds check) or "index" (the panic of indexing the
\* Vec<u8> past its length); a panicking operation leaves self as it was.
\* ------------------------------------------------------------------------
BitVec_new(size) == [bits |-> [i \in 1..size |-> 0], size |-> size]

\* self.bits[pos / 8], a 0-based index into the 1-based sequence.
ByteAt(self, pos) == self.bits[(pos \div 8) + 1]

\* Mask with the bits of a byte counted from the most significant one.
MaskMsbFirst(pos) == Pow2(7 - (pos % 8))

\* 1 << (pos % 8), as a u8.
Mask(pos) == Pow2(pos % 8)

\* The bounds check that opens every operation: pos > self.size panics.
BoundsPanic(self, pos) == pos > self.size

\* Whether indexing self.bits[pos / 8] panics.
IndexPanic(self, pos) == (pos \div 8) >= Len(self.bits)

is_set(self, pos) ==
    IF BoundsPanic(self, pos) THEN [err |-> "bounds", self |-> self, val |-> FALSE]
    ELSE IF IndexPanic(self, pos) THEN [err |-> "index", self |-> self, val |-> FALSE]
    ELSE [err |-> "none", self |-> self,
          val |-> BitAnd(Mask(pos), ByteAt(self, pos)) > 0]

\* self.bits[pos / 8] = byte
StoreByte(self, pos, byte) ==
    [self EXCEPT !.bits[(pos \div 8) + 1] = byte]

\* set with an exclusive or in place of the or.
SetByXor(self, pos) ==
    IF BoundsPanic(self, pos) THEN [err |-> "bounds", self |-> self, val |-> FALSE]
    ELSE IF IndexPanic(self, pos) THEN [err |-> "index", self |-> self, val |-> FALSE]
    ELSE [err |-> "none", val |-> FALSE,
          self |-> StoreByte(self, pos, BitXor(ByteAt(self, pos), Mask(pos)))]

set(self, pos) ==
    IF BoundsPanic(self, pos) THEN [err |-> "bounds", self |-> self, val |-> FALSE]
    ELSE IF IndexPanic(self, pos) THEN [err |-> "index", self |-> self, val |-> FALSE]
    ELSE [err |-> "none", val |-> FALSE,
          self |-> StoreByte(self, pos, BitOr(ByteAt(self, pos), Mask(pos)))]

\* unset with the mask not inverted.
UnsetMaskNotInverted(self, pos) ==
    IF BoundsPanic(self, pos) THEN [err |-> "bounds", self |-> self, val |-> FALSE]
    ELSE IF IndexPanic(self, pos) THEN [err |-> "index", self |-> self, val |-> FALSE]
    ELSE [err |-> "none", val |-> FALSE,
          self |-> StoreByte(self, pos, BitAnd(ByteAt(self, pos), Mask(pos)))]

unset(self, pos) ==
    IF BoundsPanic(self, pos) THEN [err |-> "bounds", self |-> self, val |-> FALSE]
    ELSE IF IndexPanic(self, pos) THEN [err |-> "index", self |-> self, val |-> FALSE]
    ELSE [err |-> "none", val |-> FALSE,
          self |-> StoreByte(self, pos,
                       BitAnd(ByteAt(self, pos), BitXor(255, Mask(pos))))]

flip(self, pos) ==
    IF BoundsPanic(self, pos) THEN [err |-> "bounds", self |-> self, val |-> FALSE]
    ELSE IF IndexPanic(self, pos) THEN [err |-> "index", self |-> self, val |-> FALSE]
    ELSE [err |-> "none", val |-> FALSE,
          self |-> StoreByte(self, pos, BitXor(ByteAt(self, pos), Mask(pos)))]

get_bytes(self) == self.bits

\* Bit number b (0 = least significant) of byte number i (0-based) of the raw bytes.
RawBit(self, i, b) == (get_bytes(self)[i + 1] \div Pow2(b)) % 2

\* ------------------------------------------------------------------------
\* src/src/lib.rs.  A BloomFilter is [bits: BitVec, num_hashes: usize].
\* A false positive rate is written in thousandths (1 is 0.001, 1000 is 1.0)
\* and a logarithm in millionths, rounded to the nearest.
\* ------------------------------------------------------------------------
MaxInserts == 2

ExpectedInserts == 1..MaxInserts

Rates == {-1000, 0, 1, 100, 500, 1000}

\* The values the tests insert and probe.
Values == {KeyTest, KeyAbc, KeyNot, KeyFoo, KeyLong}

\* The check of the rate as a test for zero alone.
FprRejectedZeroOnly(fpr) == fpr = 0

\* if fpr <= 0.0 { panic!(...) }
FprRejected(fpr) == fpr <= 0

\* fpr.ln(), for the positive rates of Rates.
LnMicro(fpr) ==
    CASE fpr = 1 -> -6907755
      [] fpr = 100 -> -2302585
      [] fpr = 500 -> -693147
      [] fpr = 1000 -> 0

\* 2.0f64.ln()
Ln2Micro == 693147

\* 2.0f64.ln().powf(2.0)
Ln2SquaredMicro == 480453

Million == 1000 * 1000

\* ceil(num / den) for num >= 0, den > 0.
CeilDiv(num, den) == (num + den - 1) \div den

\* m = ((-1.0 * n * fpr.ln()) / ln(2)^2).ceil() as usize.  The logarithm of a
\* negative rate is NaN, and NaN as usize is 0.
NumBits(expected_inserts, fpr) ==
    IF fpr < 0 THEN 0
    ELSE CeilDiv(-1 * expected_inserts * LnMicro(fpr), Ln2SquaredMicro)

\* k = ((m / n) * ln(2)).ceil() as usize
NumHashes(mbits, expected_inserts) ==
    CeilDiv(mbits * Ln2Micro, expected_inserts * Million)

BloomFilter_new(expected_inserts, fpr) ==
    IF FprRejected(fpr)
    THEN [err |-> "fpr", self |-> [bits |-> BitVec_new(0), num_hashes |-> 0]]
    ELSE LET mbits == NumBits(expected_inserts, fpr)
             k == NumHashes(mbits, expected_inserts)
         IN  [err |-> "none", self |-> [bits |-> BitVec_new(mbits), num_hashes |-> k]]

\* The largest num_hashes a constructed filter has.
MaxRounds ==
    LET ks == {NumHashes(NumBits(e, f), e) :
                 e \in ExpectedInserts, f \in {g \in Rates : g > 0}}
    IN  CHOOSE k \in ks : \A j \in ks : j <= k

\* murmur3_32_seeded(value, i as u32) for the values and rounds of the filters,
\* computed once: the triples <<value, i, hash>>.
HashMemo ==
    { <<v, i, murmur3_32_seeded(v, NatToU32(i))>> :
        v \in Values, i \in 0..(MaxRounds - 1) }

Murmur(value, i) ==
    IF value \in Values /\ i \in 0..(MaxRounds - 1)
    THEN (CHOOSE t \in HashMemo : t[1] = value /\ t[2] = i)[3]
    ELSE murmur3_32_seeded(value, NatToU32(i))

\* hash % (self.bits.size as u32), with size32 the size already cast to u32:
\* a remainder by zero panics.
BitIndex(hash, size32) ==
    IF size32 = <<0, 0>>
    THEN [err |-> "rem_zero", idx |-> <<0, 0>>]
    ELSE [err |-> "none", idx |-> U32Rem(hash, size32)]

\* The rounds i, i+1, ..., num_hashes-1 of insert.
RECURSIVE InsertLoop(_, _, _)
InsertLoop(self, value, i) ==
    IF i >= self.num_hashes THEN [err |-> "none", self |-> self]
    ELSE CHOOSE out \in
           { IF bit_index.err # "none" THEN [err |-> bit_index.err, self |-> self]
             ELSE CHOOSE res \in
                    { IF r.err # "none" THEN [err |-> r.err, self |-> self]
                      ELSE InsertLoop([self EXCEPT !.bits = r.self], value, i + 1) :
                        r \in {set(self.bits, U32ToNat(bit_index.idx))} } : TRUE :
               bit_index \in {BitIndex(Murmur(value, i), NatToU32(self.bits.size))} } : TRUE

\* insert with its rounds starting at 1.
InsertFromRoundOne(self, value) == InsertLoop(self, value, 1)

insert(self, value) == InsertLoop(self, value, 0)

\* The rounds i, i+1, ..., num_hashes-1 of maybe_present.
RECURSIVE PresentLoop(_, _, _)
PresentLoop(self, value, i) ==
    IF i >= self.num_hashes THEN [err |-> "none", val |-> TRUE]
    ELSE CHOOSE out \in
           { IF bit_index.err # "none" THEN [err |-> bit_index.err, val |-> FALSE]
             ELSE CHOOSE res \in
                    { IF r.err # "none" THEN [err |-> r.err, val |-> FALSE]
                      ELSE IF ~r.val THEN [err |-> "none", val |-> FALSE]
                      ELSE PresentLoop(self, value, i + 1) :
                        r \in {is_set(self.bits, U32ToNat(bit_index.idx))} } : TRUE :
               bit_index \in {BitIndex(Murmur(value, i), NatToU32(self.bits.size))} } : TRUE

maybe_present(self, value) == PresentLoop(self, value, 0)

\* ------------------------------------------------------------------------
\* Filters of 2^16 bits and more, on a target whose usize has 64 bits.  A
\* usize is <<w3, w2, w1, w0>> (16-bit limbs, most significant first), and
\* the zeroed byte buffer is kept as the set `ones` of the bit positions that
\* are 1.  The operators follow insert, maybe_present, set and is_set line
\* by line, on this representation.
\* ------------------------------------------------------------------------
\* x as u32: the low 32 bits.
UsizeAsU32(x) == <<x[3], x[4]>>

\* x as usize, for a u32 x.
U32AsUsize(x) == <<0, 0, x[1], x[2]>>

UsizeLess(x, y) ==
    \E i \in 1..4 : x[i] < y[i] /\ \A j \in 1..(i - 1) : x[j] = y[j]

\* x / 8
UsizeDiv8(x) ==
    LET q1 == x[1] \div 8
        q2 == ((x[1] % 8) * Limb + x[2]) \div 8
        q3 == ((x[2] % 8) * Limb + x[3]) \div 8
        q4 == ((x[3] % 8) * Limb + x[4]) \div 8
    IN  <<q1, q2, q3, q4>>

\* BitVec::new(size): size zero bytes.
WideBitVec_new(size) == [ones |-> {}, len |-> size, size |-> size]

WideBoundsPanic(self, pos) == UsizeLess(self.size, pos)

WideIndexPanic(self, pos) == ~UsizeLess(UsizeDiv8(pos), self.len)

WideSet(self, pos) ==
    IF WideBoundsPanic(self, pos) THEN [err |-> "bounds", self |-> self]
    ELSE IF WideIndexPanic(self, pos) THEN [err |-> "index", self |-> self]
    ELSE [err |-> "none", self |-> [self EXCEPT !.ones = @ \cup {pos}]]

WideIsSet(self, pos) ==
    IF WideBoundsPanic(self, pos) THEN [err |-> "bounds", val |-> FALSE]
    ELSE IF WideIndexPanic(self, pos) THEN [err |-> "index", val |-> FALSE]
    ELSE [err |-> "none", val |-> pos \in self.ones]

RECURSIVE WideInsertLoop(_, _, _)
WideInsertLoop(self, value, i) ==
    IF i >= self.num_hashes THEN [err |-> "none", self |-> self]
    ELSE CHOOSE out \in
           { IF bit_index.err # "none" THEN [err |-> bit_index.err, self |-> self]
             ELSE CHOOSE res \in
                    { IF r.err # "none" THEN [err |-> r.err, self |-> self]
                      ELSE WideInsertLoop([self EXCEPT !.bits = r.self], value, i + 1) :
                        r \in {WideSet(self.bits, U32AsUsize(bit_index.idx))} } : TRUE :
               bit_index \in {BitIndex(Murmur(value, i), UsizeAsU32(self.bits.size))} } : TRUE

WideInsert(self, value) == WideInsertLoop(self, value, 0)

RECURSIVE WidePresentLoop(_, _, _)
WidePresentLoop(self, value, i) ==
    IF i >= self.num_hashes THEN [err |-> "none", val |-> TRUE]
    ELSE CHOOSE out \in
           { IF bit_index.err # "none" THEN [err |-> bit_index.err, val |-> FALSE]
             ELSE CHOOSE res \in
                    { IF r.err # "none" THEN [err |-> r.err, val |-> FALSE]
                      ELSE IF ~r.val THEN [err |-> "none", val |-> FALSE]
                      ELSE WidePresentLoop(self, value, i + 1) :
                        r \in {WideIsSet(self.bits, U32AsUsize(bit_index.idx))} } : TRUE :
               bit_index \in {BitIndex(Murmur(value, i), UsizeAsU32(self.bits.size))} } : TRUE

WideMaybePresent(self, value) == WidePresentLoop(self, value, 0)

\* What BloomFilter::new(n, p) returns, evaluated in IEEE double arithmetic, for
\*   n = 4096,  p = 0.00045865874062931534 : m = 2^16,     k = 12
\*   n = 2^30,  p = 0.3825461315011889     : m = 2^31,     k = 2
\*   n = 2^32,  p = 0.6185031378949215     : m = 2^32 - 1, k = 1
\*   n = 2^32,  p = 0.6185031378367138     : m = 2^32,     k = 1
\*   n = 2^32,  p = 0.6185031377785062     : m = 2^32 + 1, k = 1
\*   n = 2^32,  p = 0.3825461315011889     : m = 2^33,     k = 2
\*   n = 2^33,  p = 0.4864216099939396     : m = 3 * 2^32, k = 2
WideFilters ==
    { [bits |-> WideBitVec_new(s[1]), num_hashes |-> s[2]] :
        s \in { << <<0, 0, 1, 0>>, 12 >>,
                << <<0, 0, 32768, 0>>, 2 >>,
                << <<0, 0, 65535, 65535>>, 1 >>,
                << <<0, 1, 0, 0>>, 1 >>,
                << <<0, 1, 0, 1>>, 1 >>,
                << <<0, 2, 0, 0>>, 2 >>,
                << <<0, 3, 0, 0>>, 2 >> } }

\* ------------------------------------------------------------------------
\* State.
\*   bf, bfState, inserted, call : a bloom filter, whether it exists, the
\*       values whose insert has completed, and the last call made on it.
\*   bv, bvState, bvOp : a bit vector used on its own, and the last call.
\*   hKey, hSeed, hFn, hOut : one evaluation of the hash.
\*   wf, wfState, wCall : a filter of 2^16 bits or more, and the last call.
\* ------------------------------------------------------------------------
VARIABLES bf, bfState, inserted, call, bv, bvState, bvOp,
          hKey, hSeed, hFn, hOut, wf, wfState, wCall

varsBF == <<bf, bfState, inserted, call>>
varsBV == <<bv, bvState, bvOp>>
varsH == <<hKey, hSeed, hFn, hOut>>
varsW == <<wf, wfState, wCall>>
vars == <<bf, bfState, inserted, call, bv, bvState, bvOp,
          hKey, hSeed, hFn, hOut, wf, wfState, wCall>>

NoCall == [op |-> "none", arg |-> <<>>, err |-> "none", val |-> FALSE]
NoFilter == [bits |-> BitVec_new(0), num_hashes |-> 0]
NoOp == [op |-> "none", pos |-> 0, err |-> "none", val |-> FALSE]
NoWide == [bits |-> WideBitVec_new(<<0, 0, 0, 0>>), num_hashes |-> 0]

IdleBF == bf = NoFilter /\ bfState = "none" /\ inserted = {} /\ call = NoCall
IdleBV == bv = BitVec_new(0) /\ bvState = "none" /\ bvOp = NoOp
IdleH == hKey = <<>> /\ hSeed = <<0, 0>> /\ hFn = "none" /\ hOut = <<0, 0>>
IdleW == wf = NoWide /\ wfState = "none" /\ wCall = NoCall

\* ---------------------------- the bloom filter ---------------------------
New(expected_inserts, fpr) ==
    /\ bfState = "none"
    /\ LET r == BloomFilter_new(expected_inserts, fpr)
       IN  /\ bf' = r.self
           /\ bfState' = IF r.err = "none" THEN "usable" ELSE "panicked"
           /\ call' = [op |-> "new", arg |-> <<expected_inserts, fpr>>,
                       err |-> r.err, val |-> FALSE]
    /\ UNCHANGED <<inserted, varsBV, varsH, varsW>>

Insert(value) ==
    /\ bfState = "usable"
    /\ LET r == insert(bf, value)
       IN  /\ bf' = r.self
           /\ bfState' = IF r.err = "none" THEN "usable" ELSE "panicked"
           /\ inserted' = IF r.err = "none" THEN inserted \cup {value} ELSE inserted
           /\ call' = [op |-> "insert", arg |-> value, err |-> r.err, val |-> FALSE]
    /\ UNCHANGED <<varsBV, varsH, varsW>>

MaybePresent(value) ==
    /\ bfState = "usable"
    /\ LET r == maybe_present(bf, value)
       IN  /\ bfState' = IF r.err = "none" THEN "usable" ELSE "panicked"
           /\ call' = [op |-> "maybe_present", arg |-> value,
                       err |-> r.err, val |-> r.val]
    /\ UNCHANGED <<bf, inserted, varsBV, varsH, varsW>>

Init == IdleBF /\ IdleBV /\ IdleH /\ IdleW

Next ==
    \/ \E e \in ExpectedInserts, f \in Rates : New(e, f)
    \/ \E v \in Values : Insert(v)
    \/ \E v \in Values : MaybePresent(v)

Spec == Init /\ [][Next]_vars

\* ----------------------------- the bit vector ----------------------------
MaxBits == 9

Sizes == 0..MaxBits

\* Positions up to two past the largest size.
Positions == 0..(MaxBits + 2)

BVNew(size) ==
    /\ bvState = "none"
    /\ bv' = BitVec_new(size)
    /\ bvState' = "usable"
    /\ bvOp' = [op |-> "new", pos |-> size, err |-> "none", val |-> FALSE]
    /\ UNCHANGED <<varsBF, varsH, varsW>>

\* A call is made when the one before it has returned; bvOp holds the call and
\* its outcome until BVReturn.
BVApply(name, r, pos) ==
    /\ bvState = "usable"
    /\ bvOp = NoOp
    /\ bv' = r.self
    /\ bvState' = IF r.err = "none" THEN "usable" ELSE "panicked"
    /\ bvOp' = [op |-> name, pos |-> pos, err |-> r.err, val |-> r.val]
    /\ UNCHANGED <<varsBF, varsH, varsW>>

BVIsSet(pos) == BVApply("is_set", is_set(bv, pos), pos)
BVSet(pos) == BVApply("set", set(bv, pos), pos)
BVUnset(pos) == BVApply("unset", unset(bv, pos), pos)
BVFlip(pos) == BVApply("flip", flip(bv, pos), pos)

\* The caller takes the outcome of a call that did not panic.
BVReturn ==
    /\ bvState = "usable"
    /\ bvOp # NoOp
    /\ bvOp' = NoOp
    /\ UNCHANGED <<bv, bvState, varsBF, varsH, varsW>>

InitBV == Init

NextBV ==
    \/ \E size \in Sizes : BVNew(size)
    \/ \E pos \in Positions : BVIsSet(pos)
    \/ \E pos \in Positions : BVSet(pos)
    \/ \E pos \in Positions : BVUnset(pos)
    \/ \E pos \in Positions : BVFlip(pos)
    \/ BVReturn

SpecBV == InitBV /\ [][NextBV]_vars

\* -------------------------------- the hash -------------------------------
MaxKeyChars == 4

\* "a" and "e-acute", as UTF-8.
KeyChars == {<<97>>, <<195, 169>>}

RECURSIVE KeysOfChars(_)
KeysOfChars(count) ==
    IF count = 0 THEN {<<>>}
    ELSE LET shorter == KeysOfChars(count - 1)
         IN  shorter \cup {k \o ch : k \in shorter, ch \in KeyChars}

HashKeys ==
    KeysOfChars(MaxKeyChars)
      \cup {KeyEmpty, KeyA, KeyAb, KeyAbc, KeyTest, KeyHello, KeyFoo, KeyNot, KeyLong}

\* 0, 1, 2, 0x80000000, 0xffffffff
HashSeeds == {<<0, 0>>, <<0, 1>>, <<0, 2>>, <<32768, 0>>, <<65535, 65535>>}

InitH ==
    /\ IdleBF /\ IdleBV /\ IdleW
    /\ hKey \in HashKeys
    /\ hSeed \in HashSeeds
    /\ hFn = "none"
    /\ hOut = <<0, 0>>

HashSeeded ==
    /\ hFn = "none"
    /\ hFn' = "murmur3_32_seeded"
    /\ hOut' = murmur3_32_seeded(hKey, hSeed)
    /\ UNCHANGED <<hKey, hSeed, varsBF, varsBV, varsW>>

HashDefault ==
    /\ hFn = "none"
    /\ hFn' = "murmur3_32"
    /\ hOut' = murmur3_32(hKey)
    /\ UNCHANGED <<hKey, hSeed, varsBF, varsBV, varsW>>

NextH == HashSeeded \/ HashDefault

SpecH == InitH /\ [][NextH]_vars

\* --------------------------- the wide filters ----------------------------
InitW ==
    /\ IdleBF /\ IdleBV /\ IdleH
    /\ wf \in WideFilters
    /\ wfState = "usable"
    /\ wCall = NoCall

WInsert(value) ==
    /\ wfState = "usable"
    /\ LET r == WideInsert(wf, value)
       IN  /\ wf' = r.self
           /\ wfState' = IF r.err = "none" THEN "usable" ELSE "panicked"
           /\ wCall' = [op |-> "insert", arg |-> value, err |-> r.err, val |-> FALSE]
    /\ UNCHANGED <<varsBF, varsBV, varsH>>

WMaybePresent(value) ==
    /\ wfState = "usable"
    /\ LET r == WideMaybePresent(wf, value)
       IN  /\ wfState' = IF r.err = "none" THEN "usable" ELSE "panicked"
           /\ wCall' = [op |-> "maybe_present", arg |-> value,
                        err |-> r.err, val |-> r.val]
    /\ UNCHANGED <<wf, varsBF, varsBV, varsH>>

NextW ==
    \/ \E v \in Values : WInsert(v)
    \/ \E v \in Values : WMaybePresent(v)

SpecW == InitW /\ [][NextW]_vars

\* ------------------------------------------------------------------------
\* Properties.
\* ------------------------------------------------------------------------
\* Every position of the raw bytes of a bit vector: <<byte, bit>>.
RawPositions(self) == (0..(Len(get_bytes(self)) - 1)) \X (0..7)

\* What is_set(pos) gives its caller: the panic, if any, and the value.
IsSetOutcome(self, pos) ==
    CHOOSE out \in {<<r.err, r.val>> : r \in {is_set(self, pos)}} : TRUE

\* C1. No false negatives: in every state of a usable filter, maybe_present
\* returns true, without failing, for every value whose insert has completed,
\* whatever calls came in between; and every maybe_present call actually made
\* on an inserted value returned true.
NoFalseNegatives ==
    /\ bfState = "usable" =>
         \A v \in inserted : maybe_present(bf, v) = [err |-> "none", val |-> TRUE]
    /\ (call.op = "maybe_present" /\ call.arg \in inserted) =>
         (call.err = "none" /\ call.val)

\* C1 witness: a maybe_present call on an inserted value returned true in a
\* filter of several hash rounds that holds three values and still tells a
\* fourth one absent.
NoFalseNegativesWitness ==
    /\ bfState = "usable"
    /\ call.op = "maybe_present" /\ call.arg \in inserted /\ call.val
    /\ Cardinality(inserted) >= 3
    /\ bf.num_hashes >= 2
    /\ \E w \in Values \ inserted : ~maybe_present(bf, w).val

\* C2. Monotonic bit state: no step of a filter turns a 1 bit of its raw bytes
\* into 0 or changes the buffer's length or recorded size, and a maybe_present
\* step leaves the whole filter as it was.
MonotonicBits ==
    [][ bfState = "usable" =>
          /\ Len(get_bytes(bf'.bits)) = Len(get_bytes(bf.bits))
          /\ bf'.bits.size = bf.bits.size
          /\ \A p \in RawPositions(bf.bits) :
                RawBit(bf.bits, p[1], p[2]) = 1 => RawBit(bf'.bits, p[1], p[2]) = 1
          /\ (call'.op = "maybe_present" => bf' = bf) ]_vars

\* C2 witness: an insert completed on a filter that already held another value,
\* and bits are set in more than one byte.
MonotonicBitsWitness ==
    /\ bfState = "usable"
    /\ call.op = "insert" /\ call.err = "none"
    /\ Cardinality(inserted) >= 2
    /\ Cardinality({p[1] : p \in {q \in RawPositions(bf.bits) :
                                    RawBit(bf.bits, q[1], q[2]) = 1}}) >= 2

\* C3. Empty filter: a filter that new returned and that no insert was made on
\* tells every probe value absent.
EmptyFilterReportsAbsent ==
    (bfState = "usable" /\ inserted = {}) =>
        \A v \in Values : maybe_present(bf, v) = [err |-> "none", val |-> FALSE]

\* C4. Out-of-range access fails: a call of is_set, set, unset or flip with
\* pos >= size ends in a panic.
OutOfRangeFails ==
    (bvOp.op \in {"is_set", "set", "unset", "flip"} /\ bvOp.pos >= bv.size) =>
        bvOp.err # "none"

\* C5. Bit array fidelity, for pos in [0, size): the call succeeds; after set
\* is_set(pos) is true; after unset it is false; flip negates it, and a second
\* flip gives back the array the first one started from.
Fidelity ==
    [][ (bvState = "usable" /\ bvOp'.op \in {"set", "unset", "flip"}
           /\ bvOp'.pos < bv.size) =>
          /\ bvOp'.err = "none"
          /\ is_set(bv', bvOp'.pos).err = "none"
          /\ bvOp'.op = "set" => is_set(bv', bvOp'.pos).val
          /\ bvOp'.op = "unset" => ~is_set(bv', bvOp'.pos).val
          /\ bvOp'.op = "flip" =>
                /\ is_set(bv', bvOp'.pos).val = ~is_set(bv, bvOp'.pos).val
                /\ flip(bv', bvOp'.pos) = [err |-> "none", self |-> bv, val |-> FALSE]
      ]_vars

\* C5 witness: an unset succeeded on an in-range position of the second byte,
\* in an array that has other bits set.
FidelityWitness ==
    /\ bvState = "usable"
    /\ bvOp.op = "unset" /\ bvOp.err = "none"
    /\ bvOp.pos < bv.size /\ bvOp.pos >= 8
    /\ \E q \in 0..(bv.size - 1) : q # bvOp.pos /\ is_set(bv, q).val

\* C6. Single-bit effect, for pos in [0, size): set, unset and flip change at
\* most bit pos % 8 (least significant first) of byte pos / 8; every other raw
\* bit, the buffer's length, the recorded size and is_set of every other
\* position stay as they were.  is_set changes nothing.
SingleBitEffect ==
    [][ bvState = "usable" =>
          /\ (bvOp'.op \in {"set", "unset", "flip"} /\ bvOp'.pos < bv.size) =>
                /\ bv'.size = bv.size
                /\ Len(get_bytes(bv')) = Len(get_bytes(bv))
                /\ \A i \in (0..(Len(get_bytes(bv)) - 1)) \ {bvOp'.pos \div 8} :
                      get_bytes(bv')[i + 1] = get_bytes(bv)[i + 1]
                /\ \A b \in (0..7) \ {bvOp'.pos % 8} :
                      RawBit(bv', bvOp'.pos \div 8, b) = RawBit(bv, bvOp'.pos \div 8, b)
                /\ \A q \in Positions \ {bvOp'.pos} :
                      IsSetOutcome(bv', q) = IsSetOutcome(bv, q)
          /\ bvOp'.op = "is_set" => bv' = bv
      ]_vars

\* C6 witness: a flip succeeded on an in-range position whose byte holds
\* another set bit, in an array with a set bit in another byte too.
SingleBitEffectWitness ==
    /\ bvState = "usable"
    /\ bvOp.op = "flip" /\ bvOp.err = "none" /\ bvOp.pos < bv.size
    /\ \E p \in RawPositions(bv) :
          /\ p[1] = bvOp.pos \div 8 /\ p[2] # bvOp.pos % 8
          /\ RawBit(bv, p[1], p[2]) = 1
    /\ \E p \in RawPositions(bv) :
          p[1] # bvOp.pos \div 8 /\ RawBit(bv, p[1], p[2]) = 1

\* C7. Creation: new(size_in_bits) records size_in_bits, holds exactly
\* ceil(size_in_bits / 8) bytes, all of them zero, and no bit is set.
NewAllocatesPackedBytes ==
    bvOp.op = "new" =>
        /\ bv.size = bvOp.pos
        /\ Len(get_bytes(bv)) = CeilDiv(bvOp.pos, 8)
        /\ \A i \in 1..Len(get_bytes(bv)) : get_bytes(bv)[i] = 0
        /\ \A q \in 0..(bv.size - 1) : is_set(bv, q) = [err |-> "none", self |-> bv, val |-> FALSE]

\* C8. Construction failure: new(n, p) with p <= 0 panics with the rate's
\* message and leaves no filter: none is stored and none can be used.
ConstructionFailure ==
    (call.op = "new" /\ call.arg[2] <= 0) =>
        /\ call.err = "fpr"
        /\ bfState = "panicked"
        /\ bf = NoFilter
        /\ \A v \in Values : ~ENABLED Insert(v) /\ ~ENABLED MaybePresent(v)

\* C8 witness: new(2, 0.0) was called and panicked.
ConstructionFailureWitness ==
    call.op = "new" /\ call.arg = <<2, 0>> /\ call.err = "fpr" /\ bfState = "panicked"

\* The hash as the specification words it, on 32-bit words kept as four bytes,
\* least significant first, with arithmetic modulo 2^32 done byte by byte.
\* Then(x, F) is F(x) with x evaluated first.
Then(x, F(_)) == CHOOSE out \in {F(v) : v \in {x}} : TRUE

RefBit(w, i) == (w[(i \div 8) + 1] \div Pow2(i % 8)) % 2

RefByteOfBits(B(_), j) ==
    B(8 * j) + 2 * B(8 * j + 1) + 4 * B(8 * j + 2) + 8 * B(8 * j + 3)
      + 16 * B(8 * j + 4) + 32 * B(8 * j + 5) + 64 * B(8 * j + 6) + 128 * B(8 * j + 7)

RefWordOfBits(B(_)) ==
    <<RefByteOfBits(B, 0), RefByteOfBits(B, 1), RefByteOfBits(B, 2), RefByteOfBits(B, 3)>>

RefXor(a, b) == RefWordOfBits(LAMBDA i : (RefBit(a, i) + RefBit(b, i)) % 2)

RefRotl(a, r) == RefWordOfBits(LAMBDA i : RefBit(a, (i + 32 - r) % 32))

RefShr(a, r) == RefWordOfBits(LAMBDA i : IF i + r < 32 THEN RefBit(a, i + r) ELSE 0)

RefAdd(a, b) ==
    LET s0 == a[1] + b[1]
        s1 == a[2] + b[2] + (s0 \div 256)
        s2 == a[3] + b[3] + (s1 \div 256)
        s3 == a[4] + b[4] + (s2 \div 256)
    IN  <<s0 % 256, s1 % 256, s2 % 256, s3 % 256>>

RefMul(a, b) ==
    LET t0 == a[1] * b[1]
        t1 == a[1] * b[2] + a[2] * b[1] + (t0 \div 256)
        t2 == a[1] * b[3] + a[2] * b[2] + a[3] * b[1] + (t1 \div 256)
        t3 == a[1] * b[4] + a[2] * b[3] + a[3] * b[2] + a[4] * b[1] + (t2 \div 256)
    IN  <<t0 % 256, t1 % 256, t2 % 256, t3 % 256>>

\* One to four bytes as a little-endian integer, zero-extended.
RefLittleEndian(bytes) == [i \in 1..4 |-> IF i <= Len(bytes) THEN bytes[i] ELSE 0]

RefC1 == <<81, 45, 158, 204>>        \* 0xcc9e2d51
RefC2 == <<147, 53, 135, 27>>        \* 0x1b873593
RefN == <<100, 107, 84, 230>>        \* 0xe6546b64
RefF1 == <<107, 202, 235, 133>>      \* 0x85ebca6b
RefF2 == <<53, 174, 178, 194>>       \* 0xc2b2ae35

\* Multiply by c1, rotate left 15, multiply by c2.
RefMix(k) ==
    Then(Then(Then(k, LAMBDA v : RefMul(v, RefC1)),
              LAMBDA v : RefRotl(v, 15)),
         LAMBDA v : RefMul(v, RefC2))

\* A full chunk: fold in by exclusive or, rotate left 13, times 5 plus n.
RefFullChunk(acc, chunk) ==
    Then(Then(Then(Then(RefMix(RefLittleEndian(chunk)), LAMBDA k : RefXor(acc, k)),
                   LAMBDA v : RefRotl(v, 13)),
              LAMBDA v : RefMul(v, <<5, 0, 0, 0>>)),
         LAMBDA v : RefAdd(v, RefN))

\* The tail: fold in by exclusive or only.
RefTail(acc, tail) ==
    Then(RefMix(RefLittleEndian(tail)), LAMBDA k : RefXor(acc, k))

\* The full chunks number j, j+1, ... of the key.
RECURSIVE RefChunks(_, _, _)
RefChunks(acc, key, j) ==
    IF j >= Len(key) \div 4 THEN acc
    ELSE Then(RefFullChunk(acc, SubSeq(key, 4 * j + 1, 4 * j + 4)),
              LAMBDA v : RefChunks(v, key, j + 1))

RefAvalanche(acc) ==
    Then(Then(Then(Then(Then(acc, LAMBDA v : RefXor(v, RefShr(v, 16))),
                        LAMBDA v : RefMul(v, RefF1)),
                   LAMBDA v : RefXor(v, RefShr(v, 13))),
              LAMBDA v : RefMul(v, RefF2)),
         LAMBDA v : RefXor(v, RefShr(v, 16)))

RefMurmur(key, seed) ==
    LET full == Then(seed, LAMBDA v : RefChunks(v, key, 0))
        rest == Len(key) % 4
        mixed == IF rest = 0 THEN full
                 ELSE Then(full, LAMBDA v :
                           RefTail(v, SubSeq(key, Len(key) - rest + 1, Len(key))))
        folded == Then(mixed, LAMBDA v :
                       RefXor(v, <<Len(key) % 256, Len(key) \div 256, 0, 0>>))
    IN  RefAvalanche(folded)

\* A u32 of the model as four bytes, least significant first.
RefOfU32(x) ==
    <<U32Lo(x) % 256, U32Lo(x) \div 256, U32Hi(x) % 256, U32Hi(x) \div 256>>

\* C9. Hash reference: the value murmur3_32_seeded returns is the one the
\* specification's algorithm gives for the key and the seed, murmur3_32 is the
\* same with seed 0, and both give 613153351 for "hello" with seed 0.
HashReference ==
    /\ hFn = "murmur3_32_seeded" => RefOfU32(hOut) = RefMurmur(hKey, RefOfU32(hSeed))
    /\ hFn = "murmur3_32" => RefOfU32(hOut) = RefMurmur(hKey, <<0, 0, 0, 0>>)
    /\ (hFn # "none" /\ hKey = KeyHello /\ (hFn = "murmur3_32" \/ hSeed = <<0, 0>>)) =>
          U32ToNat(hOut) = 613153351

\* C9 witness: murmur3_32("hello") was evaluated and gave 613153351.
HashReferenceWitness ==
    hFn = "murmur3_32" /\ hKey = KeyHello /\ U32ToNat(hOut) = 613153351

\* C10. The filter never fails: on a filter of m >= 1 bits, no insert and no
\* maybe_present call ends in a panic.
FilterNeverFails ==
    wf.bits.size # <<0, 0, 0, 0>> => (wCall.err = "none" /\ wfState # "panicked")
====
